---- MODULE Spec2Model ----
(***************************************************************************)
(* A model of the todo service: the SQLite repository                      *)
(* (src/src/infrastructure/sqlite_repo.rs), the pass-through service       *)
(* (src/src/application/todo_service.rs) and the HTTP handlers             *)
(* (src/src/http/routes/todos.rs).  Every await on the connection pool is  *)
(* one atomic step of the table; the code between two awaits runs with     *)
(* the step that follows the first one or as a step of its own when it     *)
(* reads the clock.                                                        *)
(***************************************************************************)
EXTENDS Integers, Sequences, FiniteSets, TLC

\* ------------------------------------------------------------------ bounds
\* Spec: the clock runs over 0..MaxTime, in units of 1/UnitsPerSec second; at
\* most MaxTodos ids are generated and MaxReqs requests accepted.
MaxTime == 1
MaxTodos == 2
MaxReqs == 3
ConcMaxReqs == 4
\* ListSpec (one handler at a time): its clock, ids and requests.
ListMaxTime == 2
ListMaxTodos == 3
ListMaxReqs == 5
\* ErrorSpec: failing statements, and requests.
MaxFaults == 1
ErrMaxReqs == 3
\* InitSpec: calls of init, and requests.
MaxInits == 2
InitMaxReqs == 2
\* TuiSpec: the clock, ids, and the characters of a draft.
TuiMaxTime == 0
TuiMaxTodos == 2
OrderMaxTime == 1
MaxDraft == 1
MaxChars == 2
TuiMaxFaults == 2
\* DraftSpec: ids, and the characters of a draft.
DraftMaxTodos == 1
DraftMaxDraft == 2
KeysMaxChars == 3
\* ScenarioSpec: requests of other clients while the scripted client runs.
ScnBackground == 2
\* Each fractional digit group of a timestamp is one digit in base GroupBase.
GroupBase == 2

\* Handlers that can run at once (axum runs one task per request).
Workers == {1, 2}

\* Option<T>
None == <<>>
Some(v) == <<v>>
IsSome(o) == Len(o) = 1
Unwrap(o) == o[1]

\* ------------------------------------------------------------- conversions
\* Uuid::to_string / Uuid::parse_str: the text of uuid k is <<"uuid", k>>;
\* any other text is not a uuid.
UuidToString(u) == <<"uuid", u>>
JunkPath == <<"junk", 0>>
IsUuidText(s) == s[1] = "uuid"
UuidParseStr(s) == s[2]

\* DateTime::to_rfc3339 (SecondsFormat::AutoSi): the fixed-width seconds, then
\* the fraction printed with the fewest digit groups that hold it exactly
\* (none when it is zero), then the offset "+00:00".  Characters are their
\* ASCII codes: '+' = 43, '.' = 46, '0' = 48, ':' = 58.
UnitsPerSec == GroupBase * GroupBase
Digit(d) == 48 + d
OffsetText == <<43, 48, 48, 58, 48, 48>>
FracText(f) ==
    IF f = 0 THEN <<>>
    ELSE IF f % GroupBase = 0 THEN <<46, Digit(f \div GroupBase)>>
    ELSE <<46, Digit(f \div GroupBase), Digit(f % GroupBase)>>
ToRfc3339(t) ==
    LET sec == t \div UnitsPerSec
    IN  <<Digit(sec \div 10), Digit(sec % 10)>> \o FracText(t % UnitsPerSec) \o OffsetText

\* DateTime::parse_from_rfc3339(..).with_timezone(&Utc)
ParseRfc3339(s) ==
    LET sec == (s[1] - 48) * 10 + (s[2] - 48)
        nfrac == IF s[3] = 46 THEN Len(s) - Len(OffsetText) - 3 ELSE 0
        frac == IF nfrac = 0 THEN 0
                ELSE IF nfrac = 1 THEN (s[4] - 48) * GroupBase
                ELSE (s[4] - 48) * GroupBase + (s[5] - 48)
    IN  sec * UnitsPerSec + frac

\* SQLite's BINARY collation on TEXT: memcmp, the shorter text first on a tie.
TextLess(s, t) ==
    \E i \in 1..(Len(t)) :
        /\ \A j \in 1..(i - 1) : j <= Len(s) /\ s[j] = t[j]
        /\ \/ i > Len(s)
           \/ i <= Len(s) /\ s[i] < t[i]

\* match status { Pending => "pending", Done => "done" }
StatusToText(s) == IF s = "Pending" THEN "pending" ELSE "done"

\* ------------------------------------------------------------------- state
VARIABLES
    store,      \* table todos: id text -> row
    now,        \* the last reading of the wall clock (Utc::now())
    nextId,     \* the next uuid Uuid::new_v4() returns
    reqs,       \* requests accepted so far
    pc,         \* per handler: where it is
    req,        \* per handler: the request it serves
    loc,        \* per handler: the local `todo` of create / update
    resp,       \* per handler: the response it produced
    seen,       \* per handler (history): the Todo update fetched, before the overlay,
                \* and the clock's last reading at the fetch
    lim,        \* the bounds of the run: clock, ids, requests, handlers, storage errors,
                \* init calls, draft length, characters typed
    client,     \* the scripted client of the acceptance test (unused elsewhere)
    db,         \* the database file: the tables it holds, the result of the last init
    faults,     \* storage errors (failed statements) so far
    app         \* the terminal client: struct App and whether run_app's loop runs

vars == <<store, now, nextId, reqs, pc, req, loc, resp, seen, lim, client, db, faults, app>>

NoReq == [op |-> "none", path |-> JunkPath, title |-> None, description |-> None, status |-> None]
NoTodo == [id |-> 0, title |-> "", description |-> None, status |-> "Pending", created_at |-> 0, updated_at |-> 0]
NoResp == [code |-> 0, todo |-> NoTodo, items |-> <<>>]
NoSeen == [todo |-> NoTodo, at |-> 0]
NoClient == [step |-> 0, w |-> 0, id |-> 0, bg |-> 0, log |-> <<>>]
\* a fresh database file: no table, init not called yet (held, history: the
\* rows in the table when init was last called)
NoDb == [tables |-> {}, init |-> "none", calls |-> 0, held |-> 0]
\* the terminal client before run_app
NoApp == [phase |-> "off"]

\* ------------------------------------------------------------- repository
\* (mutant) init dropping the table before it creates it
SqlDropAndCreateTable(tabs, st) ==
    [ok |-> TRUE, tables |-> tabs \cup {"todos"}, store |-> <<>>]

\* CREATE TABLE IF NOT EXISTS todos (...): a new, empty table when there is
\* none, no effect and no error when there is one
SqlCreateTableIfNotExists(tabs, st) ==
    IF "todos" \in tabs
    THEN [ok |-> TRUE, tables |-> tabs, store |-> st]
    ELSE [ok |-> TRUE, tables |-> tabs \cup {"todos"}, store |-> <<>>]

\* row_to_todo
RowToTodo(idText, row) ==
    [id |-> UuidParseStr(idText),
     title |-> row.title,
     description |-> row.description,
     status |-> IF row.status = "pending" THEN "Pending"
                ELSE IF row.status = "done" THEN "Done" ELSE "Pending",
     created_at |-> ParseRfc3339(row.created_at),
     updated_at |-> ParseRfc3339(row.updated_at)]

\* SELECT ... WHERE id = ?1, fetch_optional, row.map(row_to_todo)
RepoGet(st, id) ==
    IF UuidToString(id) \in DOMAIN st
    THEN Some(RowToTodo(UuidToString(id), st[UuidToString(id)]))
    ELSE None

\* (mutant) the INSERT without the description bound
SqlInsertNoDescription(st, todo) ==
    [k \in DOMAIN st \cup {UuidToString(todo.id)} |->
        IF k = UuidToString(todo.id)
        THEN [title |-> todo.title,
              description |-> None,
              status |-> StatusToText(todo.status),
              created_at |-> ToRfc3339(todo.created_at),
              updated_at |-> ToRfc3339(todo.updated_at)]
        ELSE st[k]]

\* INSERT INTO todos (...) VALUES (...)
SqlInsert(st, todo) ==
    [k \in DOMAIN st \cup {UuidToString(todo.id)} |->
        IF k = UuidToString(todo.id)
        THEN [title |-> todo.title,
              description |-> todo.description,
              status |-> StatusToText(todo.status),
              created_at |-> ToRfc3339(todo.created_at),
              updated_at |-> ToRfc3339(todo.updated_at)]
        ELSE st[k]]

\* (mutant) INSERT OR REPLACE instead of UPDATE: a missing row is written anew
SqlUpsert(st, todo) ==
    [k \in DOMAIN st \cup {UuidToString(todo.id)} |->
        IF k = UuidToString(todo.id)
        THEN [title |-> todo.title,
              description |-> todo.description,
              status |-> StatusToText(todo.status),
              created_at |-> ToRfc3339(todo.created_at),
              updated_at |-> ToRfc3339(todo.updated_at)]
        ELSE st[k]]

\* (mutant) the UPDATE without status in its SET list
SqlUpdateWithoutStatus(st, todo) ==
    IF UuidToString(todo.id) \in DOMAIN st
    THEN [st EXCEPT ![UuidToString(todo.id)] =
            [@ EXCEPT !.title = todo.title,
                      !.description = todo.description,
                      !.updated_at = ToRfc3339(todo.updated_at)]]
    ELSE st

\* (mutant) the UPDATE binding ?5 to created_at instead of updated_at
SqlUpdateCreatedAt(st, todo) ==
    IF UuidToString(todo.id) \in DOMAIN st
    THEN [st EXCEPT ![UuidToString(todo.id)] =
            [@ EXCEPT !.title = todo.title,
                      !.description = todo.description,
                      !.status = StatusToText(todo.status),
                      !.created_at = ToRfc3339(todo.updated_at)]]
    ELSE st

\* (mutant) the UPDATE without its WHERE clause
SqlUpdateAllRows(st, todo) ==
    [k \in DOMAIN st |->
        [st[k] EXCEPT !.title = todo.title,
                      !.description = todo.description,
                      !.status = StatusToText(todo.status),
                      !.updated_at = ToRfc3339(todo.updated_at)]]

\* UPDATE todos SET title, description, status, updated_at WHERE id = ?1
SqlUpdate(st, todo) ==
    IF UuidToString(todo.id) \in DOMAIN st
    THEN [st EXCEPT ![UuidToString(todo.id)] =
            [@ EXCEPT !.title = todo.title,
                      !.description = todo.description,
                      !.status = StatusToText(todo.status),
                      !.updated_at = ToRfc3339(todo.updated_at)]]
    ELSE st

\* DELETE FROM todos WHERE id = ?1
SqlDelete(st, id) == [k \in DOMAIN st \ {UuidToString(id)} |-> st[k]]
\* (mutant) delete reporting a removed row whatever the table held
RowsAffectedOne(st, id) == 1

\* result.rows_affected() of the DELETE
RowsAffected(st, id) == IF UuidToString(id) \in DOMAIN st THEN 1 ELSE 0

\* (mutant) todo.description = input.description: an absent description clears it
ApplyUpdateAssignsDescription(todo, r, t) ==
    [todo EXCEPT !.title = IF IsSome(r.title) THEN Unwrap(r.title) ELSE @,
                 !.description = r.description,
                 !.status = IF IsSome(r.status) THEN Unwrap(r.status) ELSE @,
                 !.updated_at = t]

\* (mutant) updated_at refreshed only when the input carries a field
ApplyUpdateSkipsNoop(todo, r, t) ==
    [todo EXCEPT !.title = IF IsSome(r.title) THEN Unwrap(r.title) ELSE @,
                 !.description = IF IsSome(r.description) THEN Some(Unwrap(r.description)) ELSE @,
                 !.status = IF IsSome(r.status) THEN Unwrap(r.status) ELSE @,
                 !.updated_at = IF IsSome(r.title) \/ IsSome(r.description) \/ IsSome(r.status)
                                THEN t ELSE @]

\* the overlay of update: if let Some(..) = input.field { todo.field = .. };
\* todo.updated_at = Utc::now()
ApplyUpdate(todo, r, t) ==
    [todo EXCEPT !.title = IF IsSome(r.title) THEN Unwrap(r.title) ELSE @,
                 !.description = IF IsSome(r.description) THEN Some(Unwrap(r.description)) ELSE @,
                 !.status = IF IsSome(r.status) THEN Unwrap(r.status) ELSE @,
                 !.updated_at = t]

\* (mutant) ORDER BY updated_at DESC
ListOrdersByUpdatedAt(st) ==
    {s \in [1..Cardinality(DOMAIN st) -> DOMAIN st] :
        /\ \A i, j \in DOMAIN s : i # j => s[i] # s[j]
        /\ \A i, j \in DOMAIN s :
              i < j => ~TextLess(st[s[i]].updated_at, st[s[j]].updated_at)}

\* SELECT ... ORDER BY created_at DESC: every row once, no row before one
\* whose created_at text is greater; rows with equal created_at in any order.
ListOrders(st) ==
    {s \in [1..Cardinality(DOMAIN st) -> DOMAIN st] :
        /\ \A i, j \in DOMAIN s : i # j => s[i] # s[j]
        /\ \A i, j \in DOMAIN s :
              i < j => ~TextLess(st[s[i]].created_at, st[s[j]].created_at)}
RowsToTodos(st, s) == [i \in DOMAIN s |-> RowToTodo(s[i], st[s[i]])]

\* ------------------------------------------------------------ HTTP layer
\* parse_id: Uuid::parse_str(s), BAD_REQUEST when it fails
ParseIdOk(path) == IsUuidText(path)

\* update_todo's match on payload.status
\* (mutant) the two arms of the match exchanged
ParseStatusSwapped(st) ==
    IF st = None THEN None
    ELSE IF Unwrap(st) = "pending" THEN Some("Done") ELSE Some("Pending")

\* (mutant) no arm for an unknown status: any text is taken
StatusAnyText(st) == TRUE

StatusValid(st) == st = None \/ Unwrap(st) \in {"pending", "done"}
ParseStatus(st) ==
    IF st = None THEN None
    ELSE IF Unwrap(st) = "pending" THEN Some("Pending") ELSE Some("Done")

\* UpdateTodo { title: payload.title, description: payload.description, status }
UpdateTodoOf(r) == [title |-> r.title, description |-> r.description, status |-> ParseStatus(r.status)]

\* Request inputs: the path segment, the JSON body of POST and of PUT.
UuidPaths == {UuidToString(k) : k \in 1..MaxTodos}
Paths == UuidPaths \cup {JunkPath}
CreateInputs == {<<"a", None>>, <<"a", Some("d")>>, <<"", None>>}
Body(t, d, s) == [title |-> t, description |-> d, status |-> s]
ValidBodies ==
    {Body(None, None, None),
     Body(Some("b"), None, None),
     Body(None, None, Some("done")),
     Body(Some(""), Some("e"), None)}
BogusBody == Body(Some("b"), None, Some("bogus"))
PutInputs ==
    (UuidPaths \X ValidBodies) \cup (UuidPaths \X {BogusBody})
    \cup {<<JunkPath, Body(Some("b"), None, None)>>}

Reply(code) == [code |-> code, todo |-> NoTodo, items |-> <<>>]
ReplyTodo(t) == [code |-> 200, todo |-> t, items |-> <<>>]
ReplyItems(ts) == [code |-> 200, todo |-> NoTodo, items |-> ts]

\* A request is served by a fresh task; tasks are anonymous, so the model gives
\* it the first free handler.
FirstIdle(w) == w <= lim.workers /\ pc[w] = "idle" /\ \A v \in Workers : pc[v] = "idle" => w <= v
\* A finished handler hands its response over before the next request is taken.
NoneDone == \A v \in Workers : pc[v] # "done"
\* main serves requests only after repo.init() has returned Ok.
Serving == db.init = "ok"
Accept(w) == Serving /\ NoneDone /\ FirstIdle(w) /\ reqs < lim.reqs /\ reqs' = reqs + 1

InitWith(l) ==
    /\ lim = l
    /\ store = <<>>
    /\ now = 0
    /\ nextId = 1
    /\ reqs = 0
    /\ pc = [w \in Workers |-> "idle"]
    /\ req = [w \in Workers |-> NoReq]
    /\ loc = [w \in Workers |-> NoTodo]
    /\ resp = [w \in Workers |-> NoResp]
    /\ seen = [w \in Workers |-> NoSeen]
    /\ client = NoClient
    /\ db = NoDb
    /\ faults = 0
    /\ app = NoApp

\* repo.init(), called by every process that opens the database (main of the
\* server, main of the terminal client, the acceptance test) before anything else
RepoInit ==
    /\ db.calls < lim.inits
    /\ LET r == SqlCreateTableIfNotExists(db.tables, store)
       IN  /\ db' = [tables |-> r.tables, init |-> IF r.ok THEN "ok" ELSE "err",
                  calls |-> db.calls + 1, held |-> Cardinality(DOMAIN store)]
           /\ store' = r.store
    /\ UNCHANGED <<now, nextId, reqs, pc, req, loc, resp, seen, lim, faults, app>>

\* Utc::now(): the clock never goes backwards; `now` is its last reading and
\* the next reading is any later or equal time.
ClockReadings == now..lim.time

\* POST /todos: create_todo -> service.create -> repo.create up to the INSERT:
\* now = Utc::now(), id = Uuid::new_v4(), status = Pending
PostTodos(w, title, desc) ==
    /\ Accept(w)
    /\ nextId <= lim.todos
    /\ nextId' = nextId + 1
    /\ req' = [req EXCEPT ![w] = [NoReq EXCEPT !.op = "POST", !.title = Some(title), !.description = desc]]
    /\ \E t \in ClockReadings :
          /\ now' = t
          /\ loc' = [loc EXCEPT ![w] = [id |-> nextId, title |-> title, description |-> desc,
                                        status |-> "Pending", created_at |-> t, updated_at |-> t]]
    /\ pc' = [pc EXCEPT ![w] = "create_insert"]
    /\ UNCHANGED <<store, resp, seen, lim, db, faults, app>>

\* the INSERT of repo.create, and create_todo's 200 with the Todo built from the input
CreateInsert(w) ==
    /\ pc[w] = "create_insert"
    /\ store' = SqlInsert(store, loc[w])
    /\ resp' = [resp EXCEPT ![w] = ReplyTodo(loc[w])]
    /\ pc' = [pc EXCEPT ![w] = "done"]
    /\ UNCHANGED <<now, nextId, reqs, req, loc, seen, lim, db, faults, app>>

\* GET /todos: list_todos -> repo.list
ListTodos(w) ==
    /\ Accept(w)
    /\ \E s \in ListOrders(store) :
          resp' = [resp EXCEPT ![w] = ReplyItems(RowsToTodos(store, s))]
    /\ req' = [req EXCEPT ![w] = [NoReq EXCEPT !.op = "LIST"]]
    /\ pc' = [pc EXCEPT ![w] = "done"]
    /\ UNCHANGED <<store, now, nextId, loc, seen, lim, db, faults, app>>

\* GET /todos/:id: get_todo -> repo.get
GetTodo(w, path) ==
    /\ Accept(w)
    /\ req' = [req EXCEPT ![w] = [NoReq EXCEPT !.op = "GET", !.path = path]]
    /\ resp' = [resp EXCEPT ![w] =
          IF ~ParseIdOk(path) THEN Reply(400)
          ELSE IF RepoGet(store, UuidParseStr(path)) = None THEN Reply(404)
          ELSE ReplyTodo(Unwrap(RepoGet(store, UuidParseStr(path))))]
    /\ pc' = [pc EXCEPT ![w] = "done"]
    /\ UNCHANGED <<store, now, nextId, loc, seen, lim, db, faults, app>>

\* PUT /todos/:id: update_todo's parse_id and status match, then repo.update's
\* fetch of the existing row
PutTodo(w, path, body) ==
    /\ Accept(w)
    /\ req' = [req EXCEPT ![w] = [op |-> "PUT", path |-> path, title |-> body.title,
                                  description |-> body.description, status |-> body.status]]
    /\ IF ~ParseIdOk(path) \/ ~StatusValid(body.status)
       THEN /\ resp' = [resp EXCEPT ![w] = Reply(400)]
            /\ pc' = [pc EXCEPT ![w] = "done"]
            /\ UNCHANGED <<loc, seen>>
       ELSE IF RepoGet(store, UuidParseStr(path)) = None
       THEN /\ resp' = [resp EXCEPT ![w] = Reply(404)]
            /\ pc' = [pc EXCEPT ![w] = "done"]
            /\ UNCHANGED <<loc, seen>>
       ELSE /\ loc' = [loc EXCEPT ![w] = Unwrap(RepoGet(store, UuidParseStr(path)))]
            /\ seen' = [seen EXCEPT ![w] = [todo |-> Unwrap(RepoGet(store, UuidParseStr(path))), at |-> now]]
            /\ pc' = [pc EXCEPT ![w] = "update_stamp"]
            /\ resp' = resp
    /\ UNCHANGED <<store, now, nextId, lim, db, faults, app>>

\* repo.update between its two awaits: the overlay and todo.updated_at = Utc::now()
UpdateStamp(w) ==
    /\ pc[w] = "update_stamp"
    /\ \E t \in ClockReadings :
          /\ now' = t
          /\ loc' = [loc EXCEPT ![w] = ApplyUpdate(loc[w], UpdateTodoOf(req[w]), t)]
    /\ pc' = [pc EXCEPT ![w] = "update_write"]
    /\ UNCHANGED <<store, nextId, reqs, req, resp, seen, lim, db, faults, app>>

\* the UPDATE of repo.update, Ok(Some(todo)), and update_todo's 200
UpdateWrite(w) ==
    /\ pc[w] = "update_write"
    /\ store' = SqlUpdate(store, loc[w])
    /\ resp' = [resp EXCEPT ![w] = ReplyTodo(loc[w])]
    /\ pc' = [pc EXCEPT ![w] = "done"]
    /\ UNCHANGED <<now, nextId, reqs, req, loc, seen, lim, db, faults, app>>

\* DELETE /todos/:id: delete_todo -> repo.delete
DeleteTodo(w, path) ==
    /\ Accept(w)
    /\ req' = [req EXCEPT ![w] = [NoReq EXCEPT !.op = "DELETE", !.path = path]]
    /\ IF ~ParseIdOk(path)
       THEN /\ resp' = [resp EXCEPT ![w] = Reply(400)]
            /\ store' = store
       ELSE /\ store' = SqlDelete(store, UuidParseStr(path))
            /\ resp' = [resp EXCEPT ![w] =
                  IF RowsAffected(store, UuidParseStr(path)) > 0 THEN Reply(204) ELSE Reply(404)]
    /\ pc' = [pc EXCEPT ![w] = "done"]
    /\ UNCHANGED <<now, nextId, loc, seen, lim, db, faults, app>>

\* the response leaves; the task ends
Respond(w) ==
    /\ pc[w] = "done"
    /\ pc' = [pc EXCEPT ![w] = "idle"]
    /\ req' = [req EXCEPT ![w] = NoReq]
    /\ loc' = [loc EXCEPT ![w] = NoTodo]
    /\ resp' = [resp EXCEPT ![w] = NoResp]
    /\ seen' = [seen EXCEPT ![w] = NoSeen]
    /\ UNCHANGED <<store, now, nextId, reqs, lim, db, faults, app>>

\* A statement on the pool returns Err (I/O failure, busy database, pool
\* timeout): the `?` of the repository returns it, map_err(internal_error)
\* makes it a 500.  The statement has no effect.
StorageError == faults < lim.faults /\ faults' = faults + 1

\* the first statement of list, get, update or delete fails
FirstStatementFails(w, op, path, body) ==
    /\ Accept(w)
    /\ StorageError
    /\ ~(op # "LIST" /\ ~ParseIdOk(path))
    /\ ~(op = "PUT" /\ ~StatusValid(body.status))
    /\ req' = [req EXCEPT ![w] = [op |-> op, path |-> path, title |-> body.title,
                                  description |-> body.description, status |-> body.status]]
    /\ resp' = [resp EXCEPT ![w] = Reply(500)]
    /\ pc' = [pc EXCEPT ![w] = "done"]
    /\ UNCHANGED <<store, now, nextId, loc, seen, lim, db, app>>

\* the INSERT of create or the UPDATE of update fails
WriteFails(w) ==
    /\ pc[w] \in {"create_insert", "update_write"}
    /\ StorageError
    /\ resp' = [resp EXCEPT ![w] = Reply(500)]
    /\ pc' = [pc EXCEPT ![w] = "done"]
    /\ UNCHANGED <<store, now, nextId, reqs, req, loc, seen, lim, db, app>>

Init == InitWith([time |-> MaxTime, todos |-> MaxTodos, reqs |-> MaxReqs, workers |-> 2, faults |-> 0, inits |-> 1, draft |-> 0, chars |-> 0])

\* a step of the service in which no scripted client takes part
Plain(A) == A /\ UNCHANGED client

Next ==
    \/ Plain(RepoInit)
    \/ \E w \in Workers, i \in CreateInputs : Plain(PostTodos(w, i[1], i[2]))
    \/ \E w \in Workers : Plain(CreateInsert(w))
    \/ \E w \in Workers : Plain(ListTodos(w))
    \/ \E w \in Workers, p \in Paths : Plain(GetTodo(w, p))
    \/ \E w \in Workers, i \in PutInputs : Plain(PutTodo(w, i[1], i[2]))
    \/ \E w \in Workers : Plain(UpdateStamp(w))
    \/ \E w \in Workers : Plain(UpdateWrite(w))
    \/ \E w \in Workers, p \in Paths : Plain(DeleteTodo(w, p))
    \/ \E w \in Workers : Plain(Respond(w))

Spec == Init /\ [][Next]_vars

\* --------------------------------------------------------------- ErrorSpec
\* The service with up to MaxFaults failing statements.
ErrorInit ==
    InitWith([time |-> MaxTime, todos |-> MaxTodos, reqs |-> ErrMaxReqs, workers |-> 2,
              faults |-> MaxFaults, inits |-> 1, draft |-> 0, chars |-> 0])

NoBody == Body(None, None, None)
FailingRequests ==
    {<<"LIST", JunkPath, NoBody>>}
    \cup {<<op, p, NoBody>> : op \in {"GET", "DELETE"}, p \in UuidPaths}
    \cup {<<"PUT", p, Body(Some("b"), None, None)>> : p \in UuidPaths}

ErrorNext ==
    \/ Next
    \/ \E w \in Workers, r \in FailingRequests : Plain(FirstStatementFails(w, r[1], r[2], r[3]))
    \/ \E w \in Workers : Plain(WriteFails(w))

ErrorSpec == ErrorInit /\ [][ErrorNext]_vars

\* ---------------------------------------------------------------- InitSpec
\* The database is opened MaxInits times (the server and the terminal client,
\* or a restart, on one file): init runs again at any moment of the service.
InitInit ==
    InitWith([time |-> MaxTime, todos |-> MaxTodos, reqs |-> InitMaxReqs, workers |-> 2,
              faults |-> 0, inits |-> MaxInits, draft |-> 0, chars |-> 0])

InitSpec == InitInit /\ [][Next]_vars

\* ---------------------------------------------------------------- ListSpec
\* One request at a time, three todos, three clock readings: the runs of
\* create, update, delete and list that the ordering of list is about.
ListInit ==
    InitWith([time |-> ListMaxTime, todos |-> ListMaxTodos, reqs |-> ListMaxReqs, workers |-> 1, faults |-> 0, inits |-> 1, draft |-> 0, chars |-> 0])

ListNext ==
    \/ Plain(RepoInit)
    \/ \E w \in Workers : Plain(PostTodos(w, "a", None))
    \/ \E w \in Workers : Plain(CreateInsert(w))
    \/ \E w \in Workers : Plain(ListTodos(w))
    \/ \E w \in Workers, k \in 1..lim.todos :
          Plain(PutTodo(w, UuidToString(k), Body(Some("b"), None, None)))
    \/ \E w \in Workers : Plain(UpdateStamp(w))
    \/ \E w \in Workers : Plain(UpdateWrite(w))
    \/ \E w \in Workers, k \in 1..lim.todos : Plain(DeleteTodo(w, UuidToString(k)))
    \/ \E w \in Workers : Plain(Respond(w))

ListSpec == ListInit /\ [][ListNext]_vars

\* ------------------------------------------------------------ ScenarioSpec
\* The acceptance test's client: it sends the requests of Script in order, each
\* after the response to the one before, with the id of the POST's response.
\* Other clients create, update and delete other todos meanwhile.
Script == <<"POST", "LIST", "GET", "PUT", "DELETE", "GET">>
ScriptDone == client.step = Len(Script)
DoneBody == Body(None, None, Some("done"))

ScenarioInit ==
    InitWith([time |-> MaxTime, todos |-> MaxTodos, reqs |-> Len(Script) + ScnBackground, workers |-> 2, faults |-> 0, inits |-> 1, draft |-> 0, chars |-> 0])

\* the scripted client is waiting for no response and sends its next request
ClientSends(w) ==
    /\ client.w = 0
    /\ ~ScriptDone
    /\ client' = [client EXCEPT !.w = w, !.id = IF client.step = 0 THEN nextId ELSE @]

ClientPost(w, title, desc) ==
    /\ ClientSends(w) /\ Script[client.step + 1] = "POST"
    /\ PostTodos(w, title, desc)
ClientList(w) ==
    /\ ClientSends(w) /\ Script[client.step + 1] = "LIST"
    /\ ListTodos(w)
ClientGet(w) ==
    /\ ClientSends(w) /\ Script[client.step + 1] = "GET"
    /\ GetTodo(w, UuidToString(client.id))
ClientPut(w) ==
    /\ ClientSends(w) /\ Script[client.step + 1] = "PUT"
    /\ PutTodo(w, UuidToString(client.id), DoneBody)
ClientDelete(w) ==
    /\ ClientSends(w) /\ Script[client.step + 1] = "DELETE"
    /\ DeleteTodo(w, UuidToString(client.id))

\* the scripted client receives a response: the status code, whether the
\* list holds its todo, and the status in the body
ClientReceives(w) ==
    /\ client.w = w
    /\ Respond(w)
    /\ client' = [client EXCEPT
          !.w = 0,
          !.step = @ + 1,
          !.log = Append(@, [code |-> resp[w].code,
                             listed |-> \E i \in DOMAIN resp[w].items : resp[w].items[i].id = client.id,
                             status |-> StatusToText(resp[w].todo.status)])]

\* another client's request: never on the scripted client's todo
Background(A) ==
    /\ client.bg < ScnBackground
    /\ A
    /\ client' = [client EXCEPT !.bg = @ + 1]
OtherPaths == {UuidToString(k) : k \in (1..lim.todos) \ {client.id}}

ScenarioNext ==
    \/ Plain(RepoInit)
    \/ \E w \in Workers, i \in CreateInputs : ClientPost(w, i[1], i[2])
    \/ \E w \in Workers : ClientList(w)
    \/ \E w \in Workers : ClientGet(w)
    \/ \E w \in Workers : ClientPut(w)
    \/ \E w \in Workers : ClientDelete(w)
    \/ \E w \in Workers : ClientReceives(w)
    \/ \E w \in Workers : Background(PostTodos(w, "a", None))
    \/ \E w \in Workers, p \in OtherPaths : Background(PutTodo(w, p, Body(Some("b"), None, None)))
    \/ \E w \in Workers, p \in OtherPaths : Background(DeleteTodo(w, p))
    \/ \E w \in Workers : Plain(CreateInsert(w))
    \/ \E w \in Workers : Plain(UpdateStamp(w))
    \/ \E w \in Workers : Plain(UpdateWrite(w))
    \/ \E w \in Workers : client.w # w /\ Plain(Respond(w))

ScenarioSpec == ScenarioInit /\ [][ScenarioNext]_vars

\* ------------------------------------------------------- terminal client
\* src/src/bin/tui.rs.  Strings typed at the terminal are sequences of
\* characters; Vec indices are 0-based as in the code.  A run types the first
\* lim.chars of the characters: the blank, a letter with no arm in View, and
\* 'q', a letter with an arm in View.
Chars == {" ", "x", "q"}
CharOrder == <<" ", "x", "q">>
Typed(n) == {CharOrder[i] : i \in 1..n}

\* str::trim: leading and trailing whitespace removed
RECURSIVE TrimStart(_)
TrimStart(s) == IF s # <<>> /\ Head(s) = " " THEN TrimStart(Tail(s)) ELSE s
RECURSIVE TrimEnd(_)
TrimEnd(s) == IF s # <<>> /\ s[Len(s)] = " " THEN TrimEnd(SubSeq(s, 1, Len(s) - 1)) ELSE s
Trim(s) == TrimEnd(TrimStart(s))

\* String::pop
Pop(s) == IF s = <<>> THEN s ELSE SubSeq(s, 1, Len(s) - 1)

\* Vec::get(i)
Get(v, i) == IF i < Len(v) THEN Some(v[i + 1]) ELSE None

\* struct App after run_app's constructor; key, from, calls, failed and
\* prefilled are history: the last key handled, the mode it was handled in,
\* the service calls its iteration made, those of them that returned Err, and
\* the id whose fields 'e' copied into the drafts
NewApp ==
    [phase |-> "running", items |-> <<>>, selected |-> 0, mode |-> "View",
     list_state |-> None, filter |-> "All", filtered_indices |-> <<>>,
     field |-> "Title", draft_title |-> <<>>, draft_desc |-> <<>>,
     key |-> "none", from |-> "View", calls |-> <<>>, failed |-> {}, prefilled |-> 0]

\* (mutant) recompute_filtered including every entry whatever the filter
IncludeEverything(f, status) == TRUE

\* the match of recompute_filtered
Include(f, status) ==
    IF f = "All" THEN TRUE ELSE IF f = "Pending" THEN status = "Pending" ELSE status = "Done"

\* the loop of recompute_filtered from index i on
RECURSIVE FilteredFrom(_, _, _)
FilteredFrom(items, f, i) ==
    IF i >= Len(items) THEN <<>>
    ELSE (IF Include(f, items[i + 1].status) THEN <<i>> ELSE <<>>) \o FilteredFrom(items, f, i + 1)

\* (mutant) recompute_filtered without the clamp of the selection
RecomputeFilteredNoClamp(a) ==
    LET fi == FilteredFrom(a.items, a.filter, 0)
    IN  [a EXCEPT !.filtered_indices = fi,
                  !.list_state = IF Len(fi) = 0 THEN None ELSE Some(a.selected)]

\* App::recompute_filtered
RecomputeFiltered(a) ==
    LET fi == FilteredFrom(a.items, a.filter, 0)
        len == Len(fi)
        sel == IF len = 0 THEN 0 ELSE IF a.selected >= len THEN len - 1 ELSE a.selected
    IN  [a EXCEPT !.filtered_indices = fi,
                  !.selected = sel,
                  !.list_state = IF len = 0 THEN None ELSE Some(sel)]

\* the map of App::load: Todo -> ListEntry
ToEntry(t) == [id |-> t.id, status |-> t.status, title |-> t.title, description |-> t.description]

\* App::load on the rows list returned in order s
LoadWith(a, st, s) ==
    RecomputeFiltered([a EXCEPT !.items = [i \in DOMAIN s |-> ToEntry(RowToTodo(s[i], st[s[i]]))]])

\* terminal.draw: the list_state is brought in line with the selection
Draw(a) ==
    [a EXCEPT !.list_state = IF a.filtered_indices = <<>> THEN None ELSE Some(a.selected)]

\* the iteration of the loop that handles key k starts by drawing
Handling(k) == [Draw(app) EXCEPT !.key = k, !.from = app.mode, !.calls = <<>>, !.failed = {}]

\* (mutant) the entry taken from items at the cursor, past the filter
HighlightedUnfiltered(a) == Get(a.items, a.selected)

\* the entry the list highlights: filtered_indices.get(selected), then items.get(idx)
Highlighted(a) ==
    IF Get(a.filtered_indices, a.selected) = None THEN None
    ELSE Get(a.items, Unwrap(Get(a.filtered_indices, a.selected)))

\* the loop of run_app is running and app.mode is m
Running(m) == app.phase = "running" /\ app.mode = m
\* the terminal client runs no HTTP handler and opens the database once
TuiFrame == UNCHANGED <<reqs, pc, req, loc, resp, seen, lim, db>>
\* an iteration that calls no service operation
NoService == UNCHANGED <<store, now, nextId, faults>>
\* the iteration calls the service: ops, in order, are recorded in app.calls
Calling(a, ops) == [a EXCEPT !.calls = ops]
\* whether the next call may return Err, n calls of the iteration having failed
MayFail(n) == IF faults + n < lim.faults THEN {FALSE, TRUE} ELSE {FALSE}
Errs(f1, f2) == (IF f1 THEN 1 ELSE 0) + (IF f2 THEN 1 ELSE 0)

\* repo.update as one call: fetch, overlay with the clock reading t, UPDATE
ServiceUpdate(st, id, u, t) ==
    IF RepoGet(st, id) = None THEN st
    ELSE SqlUpdate(st, ApplyUpdate(Unwrap(RepoGet(st, id)), u, t))

\* repo.create as one call
ServiceCreate(st, id, title, desc, t) ==
    SqlInsert(st, [id |-> id, title |-> title, description |-> desc,
                   status |-> "Pending", created_at |-> t, updated_at |-> t])

\* (mutant) the load after a key keeping the cached items
ReloadStale(a, fails) ==
    app' = RecomputeFiltered([a EXCEPT !.calls = Append(@, <<"list", 0>>)])

\* app.load().await?: the list and recompute_filtered, or run_app returns the Err
Reload(a, fails) ==
    LET b == [a EXCEPT !.calls = Append(@, <<"list", 0>>)]
    IN  IF fails THEN app' = [b EXCEPT !.phase = "failed", !.failed = @ \cup {"list"}]
        ELSE \E s \in ListOrders(store') : app' = LoadWith(b, store', s)

\* (mutant) the result of the create, update or delete propagated with `?`
Propagating(a, op, f1, f2) ==
    IF f1 THEN app' = [a EXCEPT !.failed = {op}, !.phase = "failed"]
    ELSE Reload(a, f2)

\* let _ = app.service.<op>(..).await; then app.load().await?: the result of
\* the create, update or delete (Err when f1) is dropped, the load's is not
Discarding(a, op, f1, f2) ==
    Reload([a EXCEPT !.failed = IF f1 THEN {op} ELSE {}], f2)

\* run_app up to its loop: App { .. } and the first load
RunApp ==
    /\ app.phase = "off" /\ db.init = "ok"
    /\ UNCHANGED <<store, now, nextId>>
    /\ \E lf \in MayFail(0) :
          /\ faults' = faults + Errs(lf, FALSE)
          /\ Reload(NewApp, lf)
    /\ TuiFrame

\* View, 'q'
KeyQuit ==
    /\ Running("View")
    /\ app' = [Handling("q") EXCEPT !.phase = "exited"]
    /\ NoService /\ TuiFrame

\* View, Up
KeyUp ==
    /\ Running("View")
    /\ app' = [Handling("Up") EXCEPT !.selected = IF @ > 0 THEN @ - 1 ELSE @]
    /\ NoService /\ TuiFrame

\* View, Down
KeyDown ==
    /\ Running("View")
    /\ LET a == Handling("Down")
       IN  app' = [a EXCEPT !.selected = IF @ + 1 < Len(a.filtered_indices) THEN @ + 1 ELSE @]
    /\ NoService /\ TuiFrame

\* match entry.status { Pending => Done, Done => Pending }
Flip(status) == IF status = "Pending" THEN "Done" ELSE "Pending"

\* View, Enter: the entry it toggles is app.items.get(app.selected)
ToggleTarget(a) == Get(a.items, a.selected)

KeyEnterView ==
    /\ Running("View")
    /\ LET a == Handling("Enter")
           e == ToggleTarget(a)
       IN  IF e = None
           THEN app' = a /\ NoService
           ELSE \E f1 \in MayFail(0), t \in ClockReadings :
                \E f2 \in MayFail(Errs(f1, FALSE)) :
                   /\ faults' = faults + Errs(f1, f2)
                   /\ nextId' = nextId
                   /\ IF f1
                      THEN store' = store /\ now' \in {now, t}
                      ELSE /\ store' = ServiceUpdate(store, Unwrap(e).id,
                                          [title |-> None, description |-> None,
                                           status |-> Some(Flip(Unwrap(e).status))], t)
                           /\ now' = IF RepoGet(store, Unwrap(e).id) = None THEN now ELSE t
                   /\ Discarding(Calling(a, <<<<"update", Unwrap(e).id>>>>), "update", f1, f2)
    /\ TuiFrame

\* View, 'n'
KeyN ==
    /\ Running("View")
    /\ app' = [Handling("n") EXCEPT !.mode = "Create", !.field = "Title",
                                    !.draft_title = <<>>, !.draft_desc = <<>>]
    /\ NoService /\ TuiFrame

\* (mutant) 'e' entering Edit whether or not an entry is highlighted
KeyEAnyway ==
    /\ Running("View")
    /\ LET a == Handling("e")
           h == Highlighted(a)
       IN  app' = [a EXCEPT !.mode = "Edit", !.field = "Title",
                            !.draft_title = IF h = None THEN <<>> ELSE Unwrap(h).title,
                            !.draft_desc = IF h = None \/ Unwrap(h).description = None THEN <<>>
                                           ELSE Unwrap(Unwrap(h).description),
                            !.prefilled = IF h = None THEN 0 ELSE Unwrap(h).id]
    /\ NoService /\ TuiFrame

\* View, 'e'
KeyE ==
    /\ Running("View")
    /\ LET a == Handling("e")
           h == Highlighted(a)
       IN  app' = IF h = None THEN a
                  ELSE [a EXCEPT !.mode = "Edit", !.field = "Title",
                                 !.draft_title = Unwrap(h).title,
                                 !.draft_desc = IF Unwrap(h).description = None THEN <<>>
                                                ELSE Unwrap(Unwrap(h).description),
                                 !.prefilled = Unwrap(h).id]
    /\ NoService /\ TuiFrame

\* View, 'd'
KeyD ==
    /\ Running("View")
    /\ LET a == Handling("d")
           h == Highlighted(a)
       IN  IF h = None
           THEN app' = a /\ NoService
           ELSE \E f1 \in MayFail(0) : \E f2 \in MayFail(Errs(f1, FALSE)) :
                   /\ faults' = faults + Errs(f1, f2)
                   /\ UNCHANGED <<now, nextId>>
                   /\ store' = IF f1 THEN store ELSE SqlDelete(store, Unwrap(h).id)
                   /\ Discarding([a EXCEPT !.selected = IF @ > 0 THEN @ - 1 ELSE @,
                                             !.calls = <<<<"delete", Unwrap(h).id>>>>],
                                 "delete", f1, f2)
    /\ TuiFrame

\* (mutant) 'f' switching between All and Pending only
NextFilterTwoCycle(f) == IF f = "All" THEN "Pending" ELSE "All"

\* the match of 'f'
NextFilter(f) == IF f = "All" THEN "Pending" ELSE IF f = "Pending" THEN "Done" ELSE "All"

\* View, 'f'
KeyF ==
    /\ Running("View")
    /\ app' = RecomputeFiltered([Handling("f") EXCEPT !.filter = NextFilter(@)])
    /\ NoService /\ TuiFrame

\* (mutant) Esc leaving the drafts as typed
KeyEscKeepsDrafts ==
    /\ app.phase = "running" /\ app.mode \in {"Create", "Edit"}
    /\ app' = [Handling("Esc") EXCEPT !.mode = "View", !.prefilled = 0]
    /\ NoService /\ TuiFrame

\* Create or Edit, Esc
KeyEsc ==
    /\ app.phase = "running" /\ app.mode \in {"Create", "Edit"}
    /\ app' = [Handling("Esc") EXCEPT !.mode = "View", !.draft_title = <<>>,
                                      !.draft_desc = <<>>, !.prefilled = 0]
    /\ NoService /\ TuiFrame

\* (mutant) Create's Enter passing the description whatever it is
CreateDescriptionAlways(desc) == Some(desc)

\* the CreateTodo of Create's Enter: desc_opt
CreateDescription(desc) == IF desc = <<>> THEN None ELSE Some(desc)

\* Create, Enter
KeyEnterCreate ==
    /\ Running("Create")
    /\ LET title == Trim(app.draft_title)
           desc == Trim(app.draft_desc)
           a == [Handling("Enter") EXCEPT !.mode = "View", !.draft_title = <<>>, !.draft_desc = <<>>]
       IN  IF title # <<>>
           THEN \E f1 \in MayFail(0), t \in ClockReadings :
                \E f2 \in MayFail(Errs(f1, FALSE)) :
                   /\ faults' = faults + Errs(f1, f2)
                   /\ nextId <= lim.todos
                   /\ nextId' = nextId + 1
                   /\ now' = t
                   /\ store' = IF f1 THEN store
                               ELSE ServiceCreate(store, nextId, title, CreateDescription(desc), t)
                   /\ Discarding(Calling(a, <<<<"create", nextId>>>>), "create", f1, f2)
           ELSE \E f2 \in MayFail(0) :
                   /\ faults' = faults + Errs(f2, FALSE)
                   /\ UNCHANGED <<store, now, nextId>>
                   /\ Reload(a, f2)
    /\ TuiFrame

\* (mutant) Edit's Enter omitting an empty description as it omits an empty title
EditInputOmitsEmpty(title, desc) ==
    [title |-> IF title = <<>> THEN None ELSE Some(title),
     description |-> IF desc = <<>> THEN None ELSE Some(desc),
     status |-> None]

\* the UpdateTodo of Edit's Enter: title_opt, desc_opt, status: None
EditInput(title, desc) ==
    [title |-> IF title = <<>> THEN None ELSE Some(title),
     description |-> IF desc = <<>> THEN Some(<<>>) ELSE Some(desc),
     status |-> None]

\* Edit, Enter
KeyEnterEdit ==
    /\ Running("Edit")
    /\ LET h == Highlighted(Draw(app))
           title == Trim(app.draft_title)
           desc == Trim(app.draft_desc)
           a == [Handling("Enter") EXCEPT !.mode = "View", !.draft_title = <<>>,
                                          !.draft_desc = <<>>, !.prefilled = 0]
       IN  IF h # None
           THEN \E f1 \in MayFail(0), t \in ClockReadings :
                \E f2 \in MayFail(Errs(f1, FALSE)) :
                   /\ faults' = faults + Errs(f1, f2)
                   /\ nextId' = nextId
                   /\ IF f1
                      THEN store' = store /\ now' \in {now, t}
                      ELSE /\ store' = ServiceUpdate(store, Unwrap(h).id, EditInput(title, desc), t)
                           /\ now' = IF RepoGet(store, Unwrap(h).id) = None THEN now ELSE t
                   /\ Discarding(Calling(a, <<<<"update", Unwrap(h).id>>>>), "update", f1, f2)
           ELSE \E f2 \in MayFail(0) :
                   /\ faults' = faults + Errs(f2, FALSE)
                   /\ UNCHANGED <<store, now, nextId>>
                   /\ Reload(a, f2)
    /\ TuiFrame

\* the draft that has the focus
Focused(a) == IF a.field = "Title" THEN a.draft_title ELSE a.draft_desc
WithFocused(a, s) == IF a.field = "Title" THEN [a EXCEPT !.draft_title = s] ELSE [a EXCEPT !.draft_desc = s]

\* Create or Edit, Backspace
KeyBackspace ==
    /\ app.phase = "running" /\ app.mode \in {"Create", "Edit"}
    /\ app' = WithFocused(Handling("Backspace"), Pop(Focused(app)))
    /\ NoService /\ TuiFrame

\* (mutant) 'q' typed in Create or Edit taken as View's quit
KeyCharAsCommand(c) ==
    /\ app.phase = "running" /\ app.mode \in {"Create", "Edit"}
    /\ c \in Typed(lim.chars)
    /\ Len(Focused(app)) < lim.draft
    /\ app' = IF c = "q" THEN [Handling("q") EXCEPT !.phase = "exited"]
              ELSE WithFocused(Handling("Char"), Append(Focused(app), c))
    /\ NoService /\ TuiFrame

\* Create or Edit, Char(c); drafts are kept within lim.draft characters
KeyChar(c) ==
    /\ app.phase = "running" /\ app.mode \in {"Create", "Edit"}
    /\ c \in Typed(lim.chars)
    /\ Len(Focused(app)) < lim.draft
    /\ app' = WithFocused(Handling("Char"), Append(Focused(app), c))
    /\ NoService /\ TuiFrame

\* Create or Edit, Tab
KeyTab ==
    /\ app.phase = "running" /\ app.mode \in {"Create", "Edit"}
    /\ app' = [Handling("Tab") EXCEPT !.field = IF @ = "Title" THEN "Description" ELSE "Title"]
    /\ NoService /\ TuiFrame

\* a key with no arm (`_ => {}`, the arrows in Create and Edit), an event that
\* is no key press, or no event before the poll times out: only the draw
KeyIgnored ==
    /\ app.phase = "running"
    /\ app' = Handling("other")
    /\ NoService /\ TuiFrame

\* ----------------------------------------------------------------- TuiSpec
\* api-tui alone on a fresh database file.
TuiInit ==
    InitWith([time |-> TuiMaxTime, todos |-> TuiMaxTodos, reqs |-> 0, workers |-> 0,
              faults |-> 0, inits |-> 1, draft |-> MaxDraft, chars |-> MaxChars])

TuiNext ==
    \/ Plain(RepoInit)
    \/ Plain(RunApp)
    \/ Plain(KeyQuit)
    \/ Plain(KeyUp)
    \/ Plain(KeyDown)
    \/ Plain(KeyEnterView)
    \/ Plain(KeyN)
    \/ Plain(KeyE)
    \/ Plain(KeyD)
    \/ Plain(KeyF)
    \/ Plain(KeyEsc)
    \/ Plain(KeyEnterCreate)
    \/ Plain(KeyEnterEdit)
    \/ Plain(KeyBackspace)
    \/ \E c \in Chars : Plain(KeyChar(c))
    \/ Plain(KeyTab)
    \/ Plain(KeyIgnored)

TuiSpec == TuiInit /\ [][TuiNext]_vars

\* --------------------------------------------------------------- DraftSpec
\* api-tui with longer drafts and fewer todos: the runs in which trimming a
\* draft leaves something.
DraftInit ==
    InitWith([time |-> TuiMaxTime, todos |-> DraftMaxTodos, reqs |-> 0, workers |-> 0,
              faults |-> 0, inits |-> 1, draft |-> DraftMaxDraft, chars |-> MaxChars])

DraftSpec == DraftInit /\ [][TuiNext]_vars

\* --------------------------------------------------------------- OrderSpec
\* api-tui with a clock that advances: todos created at different times.
OrderInit ==
    InitWith([time |-> OrderMaxTime, todos |-> TuiMaxTodos, reqs |-> 0, workers |-> 0,
              faults |-> 0, inits |-> 1, draft |-> MaxDraft, chars |-> MaxChars])

OrderSpec == OrderInit /\ [][TuiNext]_vars

\* ---------------------------------------------------------------- KeysSpec
\* api-tui with 'q' among the characters typed into the drafts.
KeysInit ==
    InitWith([time |-> TuiMaxTime, todos |-> DraftMaxTodos, reqs |-> 0, workers |-> 0,
              faults |-> 0, inits |-> 1, draft |-> DraftMaxDraft, chars |-> KeysMaxChars])

KeysSpec == KeysInit /\ [][TuiNext]_vars

\* --------------------------------------------------------------- FaultSpec
\* api-tui on a database whose statements may fail.
FaultInit ==
    InitWith([time |-> TuiMaxTime, todos |-> TuiMaxTodos, reqs |-> 0, workers |-> 0,
              faults |-> TuiMaxFaults, inits |-> 1, draft |-> MaxDraft, chars |-> MaxChars])

FaultSpec == FaultInit /\ [][TuiNext]_vars

\* ---------------------------------------------------------------- ConcSpec
\* The server with room for two requests in flight after two creates.
ConcInit ==
    InitWith([time |-> MaxTime, todos |-> MaxTodos, reqs |-> ConcMaxReqs, workers |-> 2,
              faults |-> 0, inits |-> 1, draft |-> 0, chars |-> 0])

ConcSpec == ConcInit /\ [][Next]_vars

\* ------------------------------------------------------------------ claims
\* the step in which handler w's UPDATE statement runs
UpdateWrites(w) == pc[w] = "update_write" /\ pc'[w] = "done"
\* the step in which handler w takes a request
Accepts(w) == pc[w] = "idle" /\ pc'[w] # "idle"
RowOf(w) == UuidToString(loc[w].id)
AllAbsent(r) == r.title = None /\ r.description = None /\ r.status = None
\* title, description and status of row k are the same in st1 and st2
SameContent(st1, st2, k) ==
    /\ st1[k].title = st2[k].title
    /\ st1[k].description = st2[k].description
    /\ st1[k].status = st2[k].status

\* C1: when create returns for an input with a non-empty title, get on the
\* returned id yields a Todo with that id, the input's title and description,
\* status Pending and created_at = updated_at.
C1_CreateThenGet ==
    \A w \in Workers :
        (pc[w] = "done" /\ req[w].op = "POST" /\ Unwrap(req[w].title) # "") =>
            /\ resp[w].code = 200
            /\ LET g == RepoGet(store, resp[w].todo.id)
               IN  /\ IsSome(g)
                   /\ Unwrap(g).id = resp[w].todo.id
                   /\ Unwrap(g).title = Unwrap(req[w].title)
                   /\ Unwrap(g).description = req[w].description
                   /\ Unwrap(g).status = "Pending"
                   /\ Unwrap(g).created_at = Unwrap(g).updated_at

C1_Witness ==
    \E w \in Workers :
        /\ pc[w] = "done" /\ req[w].op = "POST" /\ resp[w].code = 200
        /\ req[w].title = Some("a") /\ req[w].description = Some("d")
        /\ IsSome(RepoGet(store, resp[w].todo.id))
        /\ Unwrap(RepoGet(store, resp[w].todo.id)).description = Some("d")

\* C2 as stated: the UPDATE of update(id, input) leaves the row with the input's
\* value in every field the input carries and with the value stored just
\* before it in every other field, keeps created_at and every other row.
C2_Original ==
    [][\A w \in Workers :
        (UpdateWrites(w) /\ RowOf(w) \in DOMAIN store) =>
            LET k == RowOf(w)
                u == UpdateTodoOf(req[w])
            IN  /\ DOMAIN store' = DOMAIN store
                /\ \A j \in DOMAIN store \ {k} : store'[j] = store[j]
                /\ store'[k].created_at = store[k].created_at
                /\ store'[k].title = IF IsSome(u.title) THEN Unwrap(u.title) ELSE store[k].title
                /\ store'[k].description =
                      IF IsSome(u.description) THEN u.description ELSE store[k].description
                /\ store'[k].status =
                      IF IsSome(u.status) THEN StatusToText(Unwrap(u.status)) ELSE store[k].status]_vars

\* C2 as amended: a field the input does not carry is written back with the
\* value update fetched at its start; id, created_at and every other row are
\* untouched, and a row deleted in between is not written at all.
C2_UpdateFrame ==
    [][\A w \in Workers :
        UpdateWrites(w) =>
            LET k == RowOf(w)
                u == UpdateTodoOf(req[w])
                old == seen[w].todo
            IN  /\ DOMAIN store' = DOMAIN store
                /\ \A j \in DOMAIN store \ {k} : store'[j] = store[j]
                /\ k \in DOMAIN store =>
                    /\ store'[k].created_at = store[k].created_at
                    /\ store'[k].title = IF IsSome(u.title) THEN Unwrap(u.title) ELSE old.title
                    /\ store'[k].description =
                          IF IsSome(u.description) THEN u.description ELSE old.description
                    /\ store'[k].status =
                          StatusToText(IF IsSome(u.status) THEN Unwrap(u.status) ELSE old.status)]_vars

C2_Witness ==
    \E w \in Workers :
        /\ pc[w] = "done" /\ req[w].op = "PUT" /\ resp[w].code = 200
        /\ req[w].title = Some("b") /\ req[w].description = None /\ req[w].status = None
        /\ Cardinality(DOMAIN store) = 2
        /\ req[w].path \in DOMAIN store
        /\ store[req[w].path].title = "b"
        /\ seen[w].todo.title = "a"
        /\ store[req[w].path].description = Some("d")

\* C3 as stated: the UPDATE of an update with no field leaves title, description
\* and status as stored just before it and sets updated_at to the clock
\* reading of the call.
C3_Original ==
    [][\A w \in Workers :
        (UpdateWrites(w) /\ RowOf(w) \in DOMAIN store /\ AllAbsent(req[w])) =>
            /\ SameContent(store', store, RowOf(w))
            /\ store'[RowOf(w)].updated_at = ToRfc3339(loc[w].updated_at)
            /\ loc[w].updated_at >= seen[w].at]_vars

\* C3 as amended: every applied update sets updated_at to the clock reading it
\* took after its fetch, whatever the input; an update with no field writes
\* back the title, description and status it fetched.
C3_UpdatedAtRefreshed ==
    [][\A w \in Workers :
        (UpdateWrites(w) /\ RowOf(w) \in DOMAIN store) =>
            /\ store'[RowOf(w)].updated_at = ToRfc3339(loc[w].updated_at)
            /\ loc[w].updated_at >= seen[w].at
            /\ loc[w].updated_at <= now
            /\ AllAbsent(req[w]) =>
                  /\ store'[RowOf(w)].title = seen[w].todo.title
                  /\ store'[RowOf(w)].description = seen[w].todo.description
                  /\ store'[RowOf(w)].status = StatusToText(seen[w].todo.status)]_vars

C3_Witness ==
    \E w \in Workers :
        /\ pc[w] = "done" /\ req[w].op = "PUT" /\ resp[w].code = 200
        /\ AllAbsent(req[w])
        /\ req[w].path \in DOMAIN store
        /\ ParseRfc3339(store[req[w].path].updated_at) > seen[w].todo.updated_at
        /\ store[req[w].path].title = seen[w].todo.title
        /\ store[req[w].path].status = StatusToText(seen[w].todo.status)

\* C4: get, update and delete of a well-formed id that has no row answer
\* absence (404, never 500) in one step and leave the table as it was.
C4_AbsentId ==
    [][\A w \in Workers :
        (/\ Accepts(w)
         /\ req'[w].op \in {"GET", "PUT", "DELETE"}
         /\ ParseIdOk(req'[w].path)
         /\ StatusValid(req'[w].status)
         /\ req'[w].path \notin DOMAIN store) =>
            /\ pc'[w] = "done"
            /\ resp'[w].code = 404
            /\ store' = store]_vars

C4_Witness ==
    \E w \in Workers :
        /\ pc[w] = "done" /\ req[w].op = "DELETE" /\ resp[w].code = 404
        /\ DOMAIN store # {}

\* id k was inserted and its row is gone: a delete of it has completed
Deleted(k) ==
    /\ k < nextId
    /\ \A w \in Workers : ~(pc[w] = "create_insert" /\ loc[w].id = k)
    /\ UuidToString(k) \notin DOMAIN store

\* C5: once the row of an id has been deleted it never comes back, whatever
\* runs afterwards (an update that fetched it before the delete included), and
\* every get of that id answers 404.
C5_DeleteIsPermanent ==
    [][/\ \A k \in 1..lim.todos :
            Deleted(k) => (Deleted(k)' /\ RepoGet(store', k) = None)
       /\ \A w \in Workers :
            (/\ Accepts(w) /\ req'[w].op = "GET" /\ ParseIdOk(req'[w].path)
             /\ Deleted(UuidParseStr(req'[w].path))) => resp'[w].code = 404]_vars

C5_Witness ==
    \E w \in Workers :
        /\ pc[w] = "done" /\ req[w].op = "PUT" /\ resp[w].code = 200
        /\ Deleted(UuidParseStr(req[w].path))

\* C6: what list returns holds every stored todo exactly once, as get would
\* return it, newest created_at first; the order does not depend on
\* updated_at, and an empty table gives an empty list.
C6_ListOrder ==
    \A w \in Workers :
        (pc[w] = "done" /\ req[w].op = "LIST") =>
            LET items == resp[w].items
            IN  /\ resp[w].code = 200
                /\ Len(items) = Cardinality(DOMAIN store)
                /\ \A k \in DOMAIN store :
                      \E i \in DOMAIN items :
                          /\ Some(items[i]) = RepoGet(store, UuidParseStr(k))
                          /\ \A j \in DOMAIN items : items[j].id = items[i].id => j = i
                /\ \A i, j \in DOMAIN items :
                      i < j => items[i].created_at >= items[j].created_at
                /\ store = <<>> => items = <<>>

\* three todos created at t1 < t2 < t3 are listed t3, t2, t1 although the
\* oldest was updated last
C6_Witness ==
    \E w \in Workers :
        /\ pc[w] = "done" /\ req[w].op = "LIST" /\ resp[w].code = 200
        /\ Len(resp[w].items) = 3
        /\ resp[w].items[1].created_at > resp[w].items[2].created_at
        /\ resp[w].items[2].created_at > resp[w].items[3].created_at
        /\ resp[w].items[3].title = "b"
        /\ resp[w].items[3].updated_at > resp[w].items[2].updated_at

\* C7: no stored todo has an empty title.
C7_NoEmptyTitle == \A k \in DOMAIN store : store[k].title # ""

\* C8: the UPDATE of update writes title, description and status as a whole:
\* right after it the row reads back as exactly the Todo update returns,
\* whatever another writer stored since the fetch.
C8_LastWriterWins ==
    [][\A w \in Workers :
        (UpdateWrites(w) /\ RowOf(w) \in DOMAIN store) =>
            /\ resp'[w].code = 200
            /\ RepoGet(store', loc[w].id) = Some(resp'[w].todo)]_vars

\* two updates of one id, one with only a title and one with only a status,
\* both answered 200, and the row holds only the status
C8_Witness ==
    \E w, v \in Workers :
        /\ w # v
        /\ pc[w] = "done" /\ req[w].op = "PUT" /\ resp[w].code = 200
        /\ pc[v] = "done" /\ req[v].op = "PUT" /\ resp[v].code = 200
        /\ req[w].path = req[v].path
        /\ req[w].title = Some("b") /\ req[w].description = None /\ req[w].status = None
        /\ req[v].title = None /\ req[v].description = None /\ req[v].status = Some("done")
        /\ seen[w].todo = seen[v].todo
        /\ resp[w].todo.title = "b"
        /\ req[w].path \in DOMAIN store
        /\ store[req[w].path].title = "a"
        /\ store[req[w].path].status = "done"

\* C9: every stored todo has updated_at >= created_at.
C9_UpdatedNotBeforeCreated ==
    \A k \in DOMAIN store :
        ParseRfc3339(store[k].updated_at) >= ParseRfc3339(store[k].created_at)

C9_Witness ==
    \E k \in DOMAIN store, w \in Workers :
        /\ pc[w] = "done" /\ req[w].op = "PUT" /\ req[w].path = k
        /\ ParseRfc3339(store[k].updated_at) > ParseRfc3339(store[k].created_at)

\* C10: the responses to POST, GET /todos, GET id, PUT id {status: done},
\* DELETE id, GET id are 200, 200 with the todo listed, 200, 200 with status
\* "done", 204 and 404, as far as the script has run.
ExpectedLog ==
    <<[code |-> 200, listed |-> FALSE, status |-> "pending"],
      [code |-> 200, listed |-> TRUE, status |-> "pending"],
      [code |-> 200, listed |-> FALSE, status |-> "pending"],
      [code |-> 200, listed |-> FALSE, status |-> "done"],
      [code |-> 204, listed |-> FALSE, status |-> "pending"],
      [code |-> 404, listed |-> FALSE, status |-> "pending"]>>
C10_Scenario ==
    /\ Len(client.log) = client.step
    /\ \A i \in DOMAIN client.log : client.log[i] = ExpectedLog[i]

\* the script has run to its end while another client's todo is stored
C10_Witness ==
    /\ ScriptDone
    /\ Len(client.log) = Len(Script)
    /\ client.log[Len(Script)].code = 404
    /\ client.bg > 0
    /\ DOMAIN store # {}

\* C12: init on a database that already has the table succeeds and leaves get
\* of every id and the results of list as they were, whether the table is
\* empty or holds todos.
C12_InitIdempotent ==
    [][(db'.calls = db.calls + 1 /\ "todos" \in db.tables) =>
          /\ db'.init = "ok"
          /\ "todos" \in db'.tables
          /\ \A k \in 1..lim.todos : RepoGet(store', k) = RepoGet(store, k)
          /\ {RowsToTodos(store', s) : s \in ListOrders(store')}
                = {RowsToTodos(store, s) : s \in ListOrders(store)}]_vars

\* init was called a second time on a table holding a todo, which is still there
C12_Witness ==
    /\ db.calls = 2 /\ db.init = "ok"
    /\ db.held > 0
    /\ Cardinality(DOMAIN store) >= db.held
    /\ \E w \in Workers : pc[w] = "done" /\ req[w].op = "GET" /\ resp[w].code = 200

\* the step in which handler w produces its response
Answers(w) == pc[w] # "done" /\ pc'[w] = "done"
\* the step in which a statement of handler w fails
Fails(w) == faults' = faults + 1 /\ pc'[w] # pc[w]

\* the path segment is the text of a uuid; the status of a body is absent,
\* "pending" or "done"
WellFormedId(path) == path[1] = "uuid"
KnownStatus(st) == st \in {None, Some("pending"), Some("done")}

\* C11: GET, PUT and DELETE of /todos/{id} answer 400 for a malformed id,
\* PUT answers 400 for a status other than "pending" and "done", a
\* well-formed id with no row is answered 404, a failed statement of any
\* handler is answered 500, and a step that answers 400 or 404 leaves the
\* table as it was.
C11_ErrorOutcomes ==
    [][\A w \in Workers :
        /\ (Accepts(w) /\ req'[w].op \in {"GET", "PUT", "DELETE"}) =>
              /\ ~WellFormedId(req'[w].path) => (Answers(w) /\ resp'[w].code = 400)
              /\ (req'[w].op = "PUT" /\ ~KnownStatus(req'[w].status)) =>
                    (Answers(w) /\ resp'[w].code = 400)
              /\ (/\ WellFormedId(req'[w].path) /\ KnownStatus(req'[w].status)
                  /\ req'[w].path \notin DOMAIN store /\ ~Fails(w)) =>
                    (Answers(w) /\ resp'[w].code = 404)
        /\ Fails(w) => (Answers(w) /\ resp'[w].code = 500)
        /\ (Answers(w) /\ resp'[w].code \in {400, 404}) => store' = store]_vars

\* a PUT with a title and a bogus status on a stored todo was answered 400 and
\* the row is as created, while a failed UPDATE was answered 500
C11_Witness ==
    \E w, v \in Workers :
        /\ pc[w] = "done" /\ req[w].op = "PUT" /\ resp[w].code = 400
        /\ req[w].title = Some("b") /\ req[w].status = Some("bogus")
        /\ req[w].path \in DOMAIN store
        /\ store[req[w].path].title = "a"
        /\ store[req[w].path].updated_at = store[req[w].path].created_at
        /\ now > ParseRfc3339(store[req[w].path].created_at)
        /\ pc[v] = "done" /\ resp[v].code = 500 /\ req[v].op = "PUT"

\* an iteration of the terminal client's loop that changed App: app'.key is
\* the key it handled
Handled(k) == app.phase = "running" /\ app' # app /\ app'.key = k
\* the filtered view shows an item under the cursor
CursorOnItem(a) ==
    /\ a.filtered_indices # <<>>
    /\ a.selected < Len(a.filtered_indices)
    /\ a.filtered_indices[a.selected + 1] < Len(a.items)

\* C13: the loop starts in View; mode changes only from View to Create on 'n',
\* from View to Edit on 'e' with an item under the cursor, and from Create or
\* Edit to View on Enter or Esc, and these keys always make these changes;
\* 'e' without an item under the cursor changes nothing; in Edit the cursor
\* is on an item of the filtered view.
C13_ModeTransitions ==
    [][/\ (app.phase = "off" /\ app'.phase = "running") => app'.mode = "View"
       /\ (app.phase = "running" /\ app'.mode # app.mode) =>
             \/ app.mode = "View" /\ app'.mode = "Create" /\ app'.key = "n"
             \/ app.mode = "View" /\ app'.mode = "Edit" /\ app'.key = "e" /\ CursorOnItem(app)
             \/ app.mode \in {"Create", "Edit"} /\ app'.mode = "View" /\ app'.key \in {"Enter", "Esc"}
       /\ (Handled("n") /\ app.mode = "View") => app'.mode = "Create"
       /\ (Handled("e") /\ app.mode = "View") =>
             IF CursorOnItem(app) THEN app'.mode = "Edit"
             ELSE app' = [app EXCEPT !.key = "e", !.from = "View", !.calls = <<>>]
       /\ ((Handled("Enter") \/ Handled("Esc")) /\ app.mode \in {"Create", "Edit"}) =>
             app'.mode = "View"
       /\ (app'.phase = "running" /\ app'.mode = "Edit") => CursorOnItem(app')]_vars

\* Edit was entered with 'e' on the only item the Done filter shows
C13_Witness ==
    /\ app.phase = "running" /\ app.mode = "Edit" /\ app.key = "e"
    /\ app.filter = "Done"
    /\ Len(app.items) = 2 /\ Len(app.filtered_indices) = 1
    /\ app.prefilled = app.items[app.filtered_indices[1] + 1].id

\* r is s without its leading and trailing blanks
Blanks(n) == [k \in 1..n |-> " "]
IsTrimOf(r, s) ==
    /\ r = <<>> \/ (r[1] # " " /\ r[Len(r)] # " ")
    /\ \E i, j \in 0..Len(s) : s = Blanks(i) \o r \o Blanks(j)
Trimmed(s) ==
    CHOOSE r \in {SubSeq(s, i, j) : i \in 1..(Len(s) + 1), j \in 0..Len(s)} : IsTrimOf(r, s)
\* the cached items are what list returns for table st
ItemsOf(items, st) ==
    \E s \in ListOrders(st) : items = [i \in DOMAIN s |-> ToEntry(RowToTodo(s[i], st[s[i]]))]
\* the iteration left Create or Edit for View with empty drafts and a fresh list
BackInView ==
    /\ app'.phase = "running" /\ app'.mode = "View"
    /\ app'.draft_title = <<>> /\ app'.draft_desc = <<>>
    /\ app'.calls[Len(app'.calls)] = <<"list", 0>>
    /\ ItemsOf(app'.items, store')

\* C14: Enter in Create with a draft title that is not blank makes one create
\* call, which adds one Pending todo with the trimmed title and with the
\* trimmed description, absent when that is empty; with a blank title it makes
\* no create call and the table stays as it is; either way the drafts are
\* cleared, the list is loaded again and mode is View.
C14_CreateSave ==
    [][(Handled("Enter") /\ app.mode = "Create") =>
          LET title == Trimmed(app.draft_title)
              desc == Trimmed(app.draft_desc)
              k == UuidToString(nextId)
          IN  /\ BackInView
              /\ IF title # <<>>
                 THEN /\ app'.calls = <<<<"create", nextId>>, <<"list", 0>>>>
                      /\ k \notin DOMAIN store
                      /\ DOMAIN store' = DOMAIN store \cup {k}
                      /\ \A j \in DOMAIN store : store'[j] = store[j]
                      /\ store'[k].title = title
                      /\ store'[k].description = (IF desc = <<>> THEN None ELSE Some(desc))
                      /\ store'[k].status = "pending"
                 ELSE /\ app'.calls = <<<<"list", 0>>>>
                      /\ store' = store]_vars

\* Enter in Create made a create call and the list shows the new todo, stored
\* with the title x and no description
C14_Witness ==
    /\ app.phase = "running" /\ app.mode = "View" /\ app.key = "Enter" /\ app.from = "Create"
    /\ Len(app.calls) = 2 /\ app.calls[1][1] = "create"
    /\ \E k \in DOMAIN store :
          /\ store[k].title = <<"x">>
          /\ store[k].description = None
    /\ Len(app.items) = 1

UnderCursor(a) == a.items[a.filtered_indices[a.selected + 1] + 1]
\* the status column of a ListEntry's status
StatusColumn(status) == IF status = "Pending" THEN "pending" ELSE "done"

\* C16: Enter in View with an item under the cursor makes one update call, on
\* that item, which flips its status and changes no other todo, whatever the
\* filter; then the list is loaded again.
C16_ToggleHighlighted ==
    [][(Handled("Enter") /\ app.mode = "View" /\ CursorOnItem(app)) =>
          LET h == UnderCursor(app)
              k == UuidToString(h.id)
          IN  /\ app'.calls = <<<<"update", h.id>>, <<"list", 0>>>>
              /\ DOMAIN store' = DOMAIN store
              /\ store'[k].status = StatusColumn(IF h.status = "Pending" THEN "Done" ELSE "Pending")
              /\ \A j \in DOMAIN store \ {k} : store'[j] = store[j]
              /\ ItemsOf(app'.items, store')]_vars

\* C17: 'd' in View with the cursor on position k of the filtered view makes
\* one delete call, for the item there: its row is gone, every other row is
\* as before, the reloaded list does not hold it, and the cursor is at k - 1,
\* or 0 for k = 0, within the new filtered view; with no item under the
\* cursor 'd' makes no call and changes nothing.
C17_DeleteHighlighted ==
    [][(Handled("d") /\ app.mode = "View") =>
          IF CursorOnItem(app)
          THEN LET h == UnderCursor(app)
                   k == UuidToString(h.id)
               IN  /\ app'.calls = <<<<"delete", h.id>>, <<"list", 0>>>>
                   /\ k \in DOMAIN store
                   /\ DOMAIN store' = DOMAIN store \ {k}
                   /\ \A j \in DOMAIN store' : store'[j] = store[j]
                   /\ ItemsOf(app'.items, store')
                   /\ \A i \in DOMAIN app'.items : app'.items[i].id # h.id
                   /\ app'.selected = (IF app.selected > 0 THEN app.selected - 1 ELSE 0)
                   /\ app'.filtered_indices = <<>> \/ app'.selected < Len(app'.filtered_indices)
                   /\ app'.mode = "View"
          ELSE /\ store' = store
               /\ app' = [app EXCEPT !.key = "d", !.from = "View", !.calls = <<>>]]_vars

\* 'd' deleted todo 2 under the Done filter; todo 1, also Done, is under the cursor
C17_Witness ==
    /\ app.phase = "running" /\ app.key = "d"
    /\ app.calls = <<<<"delete", 2>>, <<"list", 0>>>>
    /\ app.filter = "Done"
    /\ DOMAIN store = {UuidToString(1)}
    /\ Len(app.items) = 1 /\ app.items[1].id = 1
    /\ app.filtered_indices = <<0>> /\ app.selected = 0

\* C18: Esc in Create or Edit makes no service call, empties both drafts and
\* sets mode View; the table, the cached items, the filter, the filtered
\* view and the cursor stay as they are.
C18_CancelFrame ==
    [][(Handled("Esc") /\ app.mode \in {"Create", "Edit"}) =>
          /\ app'.mode = "View" /\ app'.phase = "running"
          /\ app'.draft_title = <<>> /\ app'.draft_desc = <<>>
          /\ app'.calls = <<>>
          /\ store' = store /\ nextId' = nextId /\ now' = now
          /\ app'.items = app.items
          /\ app'.filter = app.filter
          /\ app'.filtered_indices = app.filtered_indices
          /\ app'.selected = app.selected]_vars

\* Esc left Edit with the cursor on the second of two Done items under the
\* Done filter
C18_Witness ==
    /\ app.phase = "running" /\ app.key = "Esc" /\ app.from = "Edit"
    /\ app.mode = "View"
    /\ app.filter = "Done" /\ app.selected = 1
    /\ Len(app.items) = 2 /\ Cardinality(DOMAIN store) = 2

\* C19: 'f' in View takes the filter from All to Pending, from Pending to Done
\* and from Done to All, so one press or two never give the filter back and
\* three always do; a press makes no service call and changes neither the
\* table nor the cached items.
C19_FilterCycle ==
    [][(Handled("f") /\ app.mode = "View") =>
          /\ app'.filter = (IF app.filter = "All" THEN "Pending"
                            ELSE IF app.filter = "Pending" THEN "Done" ELSE "All")
          /\ app'.filter # app.filter
          /\ NextFilter(app'.filter) # app.filter
          /\ NextFilter(NextFilter(app'.filter)) = app.filter
          /\ app'.calls = <<>>
          /\ store' = store
          /\ app'.items = app.items
          /\ app'.mode = "View"]_vars

\* 'f' has brought the filter back to All (from Done, so after three
\* presses) with two items cached
C19_Witness ==
    /\ app.phase = "running" /\ app.key = "f" /\ app.filter = "All"
    /\ Len(app.items) = 2 /\ Len(app.filtered_indices) = 2
    /\ app.items[1].status # app.items[2].status

\* exactly one Pending and one Done item are cached
OnePendingOneDone(a) ==
    /\ Len(a.items) = 2
    /\ {a.items[1].status, a.items[2].status} = {"Pending", "Done"}
\* the filtered view of a shows exactly its items of the given status
ShowsOnly(a, status) ==
    /\ Len(a.filtered_indices) = 1
    /\ a.items[a.filtered_indices[1] + 1].status = status
    /\ a.selected = 0
\* the first press of 'f' from filter All, and the press right after it
FirstPress == Handled("f") /\ app.mode = "View" /\ app.filter = "All" /\ OnePendingOneDone(app)
SecondPress ==
    /\ Handled("f") /\ app.mode = "View" /\ OnePendingOneDone(app)
    /\ app.key = "f" /\ app.filter = "Pending"
ThirdPress ==
    /\ Handled("f") /\ app.mode = "View" /\ OnePendingOneDone(app)
    /\ app.key = "f" /\ app.filter = "Done"

\* C20 as stated: with one Pending and one Done item cached and filter All,
\* one press of 'f' shows only the Pending item and the press after it gives
\* filter All with both items shown.
C20_Original ==
    [][/\ FirstPress => (app'.filter = "Pending" /\ ShowsOnly(app', "Pending"))
       /\ SecondPress => (app'.filter = "All" /\ app'.filtered_indices = <<0, 1>>)]_vars

\* C20 as amended: one press shows only the Pending item, the press after it
\* gives filter Done with only the Done item shown, and the third gives
\* filter All with both items shown; the cached items stay as they are.
C20_FilterScenario ==
    [][/\ FirstPress => (app'.filter = "Pending" /\ ShowsOnly(app', "Pending"))
       /\ SecondPress => (app'.filter = "Done" /\ ShowsOnly(app', "Done"))
       /\ ThirdPress => (app'.filter = "All" /\ app'.filtered_indices = <<0, 1>>)
       /\ (FirstPress \/ SecondPress \/ ThirdPress) => app'.items = app.items]_vars

\* the press after the first has given filter Done: only the Done item, the
\* second of the list, is shown
C20_Witness ==
    /\ app.phase = "running" /\ app.mode = "View"
    /\ app.key = "f" /\ app.filter = "Done"
    /\ OnePendingOneDone(app)
    /\ app.filtered_indices = <<1>> /\ app.selected = 0
    /\ app.items[2].status = "Done"

\* the status of a cached item matches filter f
Matches(f, status) == f = "All" \/ f = status
\* fi is the ascending list of the indices of the items that match f
IsFilteredView(fi, items, f) ==
    /\ \A j \in DOMAIN fi : fi[j] \in 0..(Len(items) - 1) /\ Matches(f, items[fi[j] + 1].status)
    /\ \A j, k \in DOMAIN fi : j < k => fi[j] < fi[k]
    /\ \A i \in 0..(Len(items) - 1) :
          Matches(f, items[i + 1].status) => \E j \in DOMAIN fi : fi[j] = i

\* C21: once run_app has loaded the list, in every state the filtered view is
\* the ascending list of the indices of the cached items whose status matches
\* the filter, and the cursor is within it: 0 with nothing selected in the
\* list when the view is empty, at least 0 and below the view's length
\* otherwise.
C21_ViewInvariant ==
    app.phase \in {"running", "exited"} =>
       /\ IsFilteredView(app.filtered_indices, app.items, app.filter)
       /\ app.selected \in Nat
       /\ IF app.filtered_indices = <<>>
          THEN app.selected = 0 /\ app.list_state = None
          ELSE app.selected < Len(app.filtered_indices)

\* after 'f' the view under filter Done is one row, the second item of the
\* cache, and the cursor is on it
C21_Witness ==
    /\ app.phase = "running" /\ app.key = "f" /\ app.filter = "Done"
    /\ Len(app.items) = 2
    /\ app.items[1].status = "Pending" /\ app.items[2].status = "Done"
    /\ app.filtered_indices = <<1>>
    /\ app.selected = 0 /\ app.list_state = Some(0)

\* C22: with the terminal client the only writer, whenever the loop is about
\* to read a key the cached items are what list returns for the table (the
\* same todos with their id, status, title and description, in list's order),
\* and every iteration that changes the table ends with a load of the list.
C22_CacheIsList ==
    /\ [](app.phase = "running" => ItemsOf(app.items, store))
    /\ [][(app.phase = "running" /\ store' # store) =>
             /\ app'.calls # <<>>
             /\ app'.calls[Len(app'.calls)] = <<"list", 0>>]_vars

\* Enter toggled the older of two todos created at different times; the cache
\* lists the newer one first
C22_Witness ==
    /\ app.phase = "running" /\ app.key = "Enter" /\ app.from = "View"
    /\ app.calls = <<<<"update", 1>>, <<"list", 0>>>>
    /\ DOMAIN store = {UuidToString(1), UuidToString(2)}
    /\ TextLess(store[UuidToString(1)].created_at, store[UuidToString(2)].created_at)
    /\ Len(app.items) = 2
    /\ app.items[1].id = 2 /\ app.items[2].id = 1
    /\ app.items[2].status = "Done"

\* s without its last character, s itself when it is empty
AllButLast(s) == [i \in 1..(IF s = <<>> THEN 0 ELSE Len(s) - 1) |-> s[i]]
\* the draft of field f in a, and the other field
DraftOf(a, f) == IF f = "Title" THEN a.draft_title ELSE a.draft_desc
OtherField(f) == IF f = "Title" THEN "Description" ELSE "Title"

\* C23: in Create or Edit a key other than Enter and Esc keeps the loop
\* running, makes no service call and leaves mode, cursor, filter, cached
\* items, filtered view and table as they are; a character, 'q' included, is
\* appended to the draft with the focus, Backspace removes that draft's last
\* character, each leaving the other draft and the focus alone; Tab moves the
\* focus to the other field and leaves both drafts; any other key changes no
\* draft and not the focus.  The loop ends only on a key handled in View.
C23_InputKeys ==
    [][/\ (/\ app.phase = "running" /\ app.mode \in {"Create", "Edit"}
           /\ app' # app /\ app'.key \notin {"Enter", "Esc"}) =>
             /\ app'.phase = "running" /\ app'.mode = app.mode
             /\ app'.selected = app.selected /\ app'.filter = app.filter
             /\ app'.items = app.items /\ app'.filtered_indices = app.filtered_indices
             /\ app'.calls = <<>> /\ store' = store
             /\ app'.key \in {"Char", "Backspace", "Tab", "other"}
             /\ DraftOf(app', OtherField(app.field)) = DraftOf(app, OtherField(app.field))
             /\ app'.key = "Char" =>
                   /\ app'.field = app.field
                   /\ \E c \in Chars : DraftOf(app', app.field) = DraftOf(app, app.field) \o <<c>>
             /\ app'.key = "Backspace" =>
                   /\ app'.field = app.field
                   /\ DraftOf(app', app.field) = AllButLast(DraftOf(app, app.field))
             /\ app'.key = "Tab" =>
                   /\ app'.field = OtherField(app.field)
                   /\ DraftOf(app', app.field) = DraftOf(app, app.field)
             /\ app'.key = "other" =>
                   /\ app'.field = app.field
                   /\ DraftOf(app', app.field) = DraftOf(app, app.field)
       /\ (app.phase = "running" /\ app'.phase = "exited") => app.mode = "View"]_vars

\* 'q' was typed in Edit after Tab: it is the second character of the draft
\* description, and the loop runs on in Edit
C23_Witness ==
    /\ app.phase = "running" /\ app.mode = "Edit"
    /\ app.key = "Char" /\ app.from = "Edit"
    /\ app.field = "Description"
    /\ app.draft_desc = <<"x", "q">>
    /\ app.draft_title = <<"x">>

\* the create, update or delete of the iteration returned Err
MutationFailed(a) == a.failed \cap {"create", "update", "delete"} # {}

\* C24 as stated: when the create, update or delete of an iteration returns
\* Err, the loop does not exit, the table is left as it was, the list is
\* loaded and mode is View.
C24_Original ==
    [][(app.phase = "running" /\ MutationFailed(app')) =>
          /\ app'.phase = "running"
          /\ store' = store
          /\ app'.calls[Len(app'.calls)] = <<"list", 0>>
          /\ app'.mode = "View"]_vars

\* C24: when the create, update or delete of an iteration returns Err, the
\* table is left as it was, the list is loaded all the same, and mode is
\* View; the loop goes on, with empty drafts and the cached items those of
\* the table, unless the load itself returns Err, which ends run_app as it
\* does after a successful action.
C24_ErrorsDiscarded ==
    [][(app.phase = "running" /\ MutationFailed(app')) =>
          /\ store' = store
          /\ Len(app'.calls) = 2
          /\ app'.calls[1][1] \in app'.failed
          /\ app'.calls[2] = <<"list", 0>>
          /\ app'.mode = "View"
          /\ IF "list" \in app'.failed
             THEN app'.phase = "failed"
             ELSE /\ app'.phase = "running"
                  /\ app'.draft_title = <<>> /\ app'.draft_desc = <<>>
                  /\ ItemsOf(app'.items, store')]_vars

\* the delete of 'd' returned Err: the todo is still in the table and in the
\* reloaded list, and the loop runs in View
C24_Witness ==
    /\ app.phase = "running" /\ app.mode = "View"
    /\ app.key = "d" /\ app.failed = {"delete"}
    /\ app.calls = <<<<"delete", 1>>, <<"list", 0>>>>
    /\ UuidToString(1) \in DOMAIN store
    /\ \E i \in DOMAIN app.items : app.items[i].id = 1

\* C25: when update returns a Todo, its UPDATE statement has written a row:
\* after the write the table holds a row for the id with the returned title,
\* description and status.
C25_UpdateReturnsStoredRow ==
    [][\A w \in Workers :
          (UpdateWrites(w) /\ resp'[w].code = 200) =>
             /\ RowOf(w) \in DOMAIN store'
             /\ store'[RowOf(w)].title = resp'[w].todo.title
             /\ store'[RowOf(w)].description = resp'[w].todo.description
             /\ store'[RowOf(w)].status = StatusToText(resp'[w].todo.status)]_vars

\* C26: Enter in View with an empty filtered view makes no service call and
\* leaves the table as it is, also when the cache holds items that the
\* filter hides.
C26_EnterOnEmptyView ==
    [][(Handled("Enter") /\ app.mode = "View" /\ app.filtered_indices = <<>>) =>
          /\ app'.calls = <<>>
          /\ store' = store]_vars

\* the step in which handler w's DELETE statement runs on row k
DeleteRuns(w, k) == Accepts(w) /\ req'[w].op = "DELETE" /\ req'[w].path = k
\* the step in which handler w's INSERT runs
InsertRuns(w) == pc[w] = "create_insert" /\ pc'[w] = "done"

\* C27: a row changes or goes only in the step of an UPDATE or DELETE
\* statement for its own id, and a row appears only in the step of the INSERT
\* for its id: in every interleaving, the statements of create, update and
\* delete calls on other ids leave a todo's title, description, status,
\* created_at and updated_at as they are.
C27_OtherIdsUntouched ==
    [][/\ \A k \in DOMAIN store :
             (k \notin DOMAIN store' \/ store'[k] # store[k]) =>
                \E w \in Workers : \/ UpdateWrites(w) /\ RowOf(w) = k
                                   \/ DeleteRuns(w, k)
       /\ \A k \in DOMAIN store' \ DOMAIN store :
             \E w \in Workers : InsertRuns(w) /\ RowOf(w) = k]_vars

\* the update of todo 1 has written its new title while an update of todo 2
\* is between its fetch and its write; todo 2 is as its create left it
C27_Witness ==
    /\ pc[1] = "done" /\ req[1].op = "PUT" /\ req[1].path = UuidToString(1)
    /\ resp[1].code = 200
    /\ pc[2] = "update_write" /\ req[2].path = UuidToString(2)
    /\ DOMAIN store = {UuidToString(1), UuidToString(2)}
    /\ store[UuidToString(1)].title = resp[1].todo.title
    /\ store[UuidToString(1)].title # seen[1].todo.title
    /\ store[UuidToString(2)].title = seen[2].todo.title
    /\ store[UuidToString(2)].updated_at = store[UuidToString(2)].created_at

\* C28 as stated: a description that is present is present after every step
\* that keeps the row.
C28_Original ==
    [][\A k \in DOMAIN store \cap DOMAIN store' :
          store[k].description # None => store'[k].description # None]_vars

\* C28: a present description becomes absent only in the write of an update
\* that carries no description and had fetched the row while it had none,
\* that is, an update that overlaps the update which set the description;
\* an update that fetched a present description leaves one in place, so a
\* description stays present through update calls that do not overlap.
C28_DescriptionKept ==
    [][\A k \in DOMAIN store \cap DOMAIN store' :
          (store[k].description # None /\ store'[k].description = None) =>
             \E w \in Workers : /\ UpdateWrites(w) /\ RowOf(w) = k
                                /\ req[w].description = None
                                /\ seen[w].todo.description = None]_vars

\* an update without a description has written a row whose description was
\* present when it fetched it: the description is as it was
C28_Witness ==
    \E w \in Workers :
       /\ pc[w] = "done" /\ req[w].op = "PUT" /\ resp[w].code = 200
       /\ req[w].description = None /\ req[w].title # None
       /\ seen[w].todo.description # None
       /\ req[w].path \in DOMAIN store
       /\ store[req[w].path].description = seen[w].todo.description
       /\ store[req[w].path].title = Unwrap(req[w].title)
       /\ store[req[w].path].title # seen[w].todo.title

====
